---- MODULE Spec2Model ----
(***************************************************************************)
(* Model of package database (src/unnamed/part_000): the execution result  *)
(* wrapper exec.Scan, the row-set wrapper query.Scan and the transaction   *)
(* finalizer SQL.EndTx, together with the parts of database/sql they call  *)
(* (sql.Result, sql.Rows, sql.Tx).                                          *)
(*                                                                         *)
(* Three specifications:                                                   *)
(*   SpecExec exec.Scan (lines 89-127) called on execution outcomes;       *)
(*   SpecTx   a unit of work: BeginTx, statements, EndTx (lines 209-235);  *)
(*   Spec     query.Scan stepping through lines 129-194 over a cursor that *)
(*            the driver and a context cancellation act on.                *)
(***************************************************************************)
EXTENDS Integers, Sequences, FiniteSets, TLC

\* ---------------------------------------------------------------- bounds
MaxAffected == 2      \* affected-row counts reported by a result: 0..MaxAffected
MaxCols == 2          \* column counts of a cursor: 0..MaxCols
MaxRows == 2          \* rows of a cursor: 0..MaxRows
MaxDest == 2          \* destination lengths returned by the callback: 0..MaxDest
MaxScans == 2         \* query.Scan calls made on one wrapper

\* ---------------------------------------------------------------- errors
Nil == "nil"
ErrNoColumnReturned == "no columns returned"
ErrDataNotFound == "data not found"
ErrInvalidArguments == "invalid arguments for scan"
ErrInvalidTransaction == "invalid transaction"
\* errors of the wrapped outcome and of database/sql and its driver
ErrWrapped == "wrapped error"
ErrRowsAffected == "RowsAffected not supported"
ErrLastInsertId == "LastInsertId not supported"
ErrCommit == "commit failed"
ErrRollback == "rollback failed"
ErrTxDone == "sql: transaction has already been committed or rolled back"
ErrDriver == "driver: bad connection"
ErrCtx == "context canceled"
ErrRowsClosed == "sql: Rows are closed"
ErrConvert == "sql: Scan error on column"
ErrDestCount == "sql: expected destination arguments in Scan"
ErrNoNext == "sql: Scan called without calling Next"
EOF == "EOF"

\* an error value: a sentinel or driver error, or (lines 178) a wrapping of
\* ErrInvalidArguments that carries the two lengths formatted into it
PlainErr(k) == [kind |-> k, cols |-> 0, dests |-> 0]
NoErr == PlainErr(Nil)

\* fmt.Errorf("%w: [%d] columns on [%d] destinations", ...)
InvalidArgumentsErr(ncolumns, ndests) ==
    [kind |-> ErrInvalidArguments, cols |-> ncolumns, dests |-> ndests]

\* log.Z().Err(e).Msg(msg): one entry of the diagnostic sink; detail is the
\* text formatted into the message (line 219), Nil when there is none
LogEntry(e, msg, detail) == [err |-> e, msg |-> msg, detail |-> detail]

VARIABLES
    \* ---- exec.Scan calls (SpecExec) and the unit of work (SpecTx)
    txState,    \* the *sql.Tx of the unit of work: "nil" or its lifecycle state
    uowErr,     \* the err variable of the enclosing unit of work
    exCall,     \* the last exec.Scan call: its inputs and what it did
    txCall,     \* the last EndTx call: its inputs and what it did
    \* ---- query wrapper and cursor (Spec)
    xRows,      \* query.sqlRows: "nil" or "rows"
    xErr,       \* query.err
    ncols,      \* columns of the cursor
    nrows,      \* rows the driver holds for the cursor
    pos,        \* rows the cursor has advanced to
    closed,     \* sql.Rows.closed
    lasterr,    \* sql.Rows.lasterr
    ctxErr,     \* sql.Rows.contextDone
    closePending, \* the cancellation watcher has stored ctxErr and not closed yet
    cbKind,     \* "pure": result depends on the index only; "stateful": any
    cbTable,    \* the pure callback
    \* ---- the running query.Scan call
    pc, scans, idx, columns, ret,
    advanced,   \* Next() calls of this Scan call that returned true
    cbCalls,    \* callback invocations of this Scan call
    cbIdx,      \* the index arguments passed to the callback in this call
    rowRes,     \* results the callback returned at the current row
    bound,      \* <<index, row>> pairs bound by this Scan call, in order
    colsSeen,   \* what Columns() reported to this call (-1: not called/failed)
    closeCalls, \* Close() calls made by this Scan call
    logs,       \* log entries emitted by this Scan call
    path        \* the return path taken by this Scan call

uowVars == <<txState, uowErr, exCall, txCall>>
cursorVars == <<ncols, nrows, pos, closed, lasterr, ctxErr, closePending>>
wrapVars == <<xRows, xErr, cbKind, cbTable>>
frameVars == <<pc, scans, idx, columns, ret, advanced, cbCalls, cbIdx, rowRes,
               bound, colsSeen, closeCalls, logs, path>>
queryVars == <<wrapVars, cursorVars, frameVars>>
vars == <<uowVars, queryVars>>

\* ======================================================================
\* exec.Scan (lines 89-127)
\* ======================================================================
\* a *int64 argument: nil, or pointing at a value
NilPtr == [isNil |-> TRUE, v |-> 0]
Ptr(v) == [isNil |-> FALSE, v |-> v]

\* a sql.Result: nil, or a handle answering RowsAffected() and LastInsertId()
NilResult == [isNil |-> TRUE, n |-> 0, nErr |-> Nil, id |-> 0, idErr |-> Nil]
Result(n, nErr, id, idErr) ==
    [isNil |-> FALSE, n |-> n, nErr |-> nErr, id |-> id, idErr |-> idErr]

\* the state exec.Scan threads through: return value (done = returned), the
\* two outputs, the reads made of the result handle, and the log entries
ExecStart(ra, li) ==
    [done |-> FALSE, ret |-> Nil, ra |-> ra, li |-> li, reads |-> <<>>, logs |-> <<>>]

ExecReturn(s, e, logged, msg) ==
    [s EXCEPT !.done = TRUE, !.ret = e,
              !.logs = Append(@, LogEntry(logged, msg, Nil))]

\* mutant: the wrapped error is logged without returning
ExecCheckErr_noReturn(s, err) ==
    IF err # Nil
       THEN [s EXCEPT !.ret = err,
                      !.logs = Append(@, LogEntry(err, "[database:exec]error not nil", Nil))]
       ELSE s

\* lines 90-94
ExecCheckErr(s, err) ==
    IF err # Nil THEN ExecReturn(s, err, err, "[database:exec]error not nil") ELSE s

\* lines 96-100
ExecCheckResult(s, res) ==
    IF s.done THEN s
    ELSE IF res.isNil THEN ExecReturn(s, ErrDataNotFound, "sql: no rows in result set",
                                    "[database:exec]rows is nil")
    ELSE s

\* mutant: the count is written before it is tested
ExecRowsAffected_writeFirst(s, res) ==
    IF s.done \/ s.ra.isNil THEN s
    ELSE LET t == [s EXCEPT !.reads = Append(@, "RowsAffected")]
         IN IF res.nErr # Nil
               THEN ExecReturn(t, res.nErr, res.nErr,
                               "[database:exec]scan rows affected error")
            ELSE IF res.n < 1
               THEN ExecReturn([t EXCEPT !.ra = Ptr(res.n)], ErrDataNotFound,
                               ErrDataNotFound, "[database:exec]rows affected")
            ELSE [t EXCEPT !.ra = Ptr(res.n)]

\* lines 102-115
ExecRowsAffected(s, res) ==
    IF s.done \/ s.ra.isNil THEN s
    ELSE LET t == [s EXCEPT !.reads = Append(@, "RowsAffected")]
         IN IF res.nErr # Nil
               THEN ExecReturn(t, res.nErr, res.nErr,
                               "[database:exec]scan rows affected error")
            ELSE IF res.n < 1
               THEN ExecReturn(t, ErrDataNotFound, ErrDataNotFound,
                               "[database:exec]rows affected")
            ELSE [t EXCEPT !.ra = Ptr(res.n)]

\* mutant: a failed last-insert-id lookup fails the call
ExecLastInsertId_fatal(s, res) ==
    IF s.done \/ s.li.isNil THEN s
    ELSE LET t == [s EXCEPT !.reads = Append(@, "LastInsertId")]
         IN IF res.idErr # Nil
               THEN ExecReturn(t, res.idErr, res.idErr,
                               "[database:exec]last inserted id error")
            ELSE [t EXCEPT !.li = Ptr(res.id)]

\* lines 117-124
ExecLastInsertId(s, res) ==
    IF s.done \/ s.li.isNil THEN s
    ELSE LET t == [s EXCEPT !.reads = Append(@, "LastInsertId")]
         IN IF res.idErr # Nil
               THEN [t EXCEPT !.logs = Append(@, LogEntry(res.idErr,
                                        "[database:exec]last inserted id error", Nil))]
            ELSE [t EXCEPT !.li = Ptr(res.id)]

\* lines 89-127
ExecScanFn(err, res, ra, li) ==
    LET s == ExecLastInsertId(
                ExecRowsAffected(
                   ExecCheckResult(
                      ExecCheckErr(ExecStart(ra, li), err), res), res), res)
    IN IF s.done THEN s ELSE [s EXCEPT !.done = TRUE, !.ret = Nil]

\* ======================================================================
\* SQL.EndTx (lines 209-235)
\* ======================================================================
TxStates == {"Active", "Committed", "CommitFailed", "RolledBack", "RollbackFailed"}

\* sql.Tx.Rollback / sql.Tx.Commit: on a finished handle ErrTxDone; on an
\* active one the driver's answer drv (Nil or its error)
TxRollback(st, drv) ==
    IF st # "Active" THEN [err |-> ErrTxDone, st |-> st]
    ELSE [err |-> drv, st |-> IF drv = Nil THEN "RolledBack" ELSE "RollbackFailed"]

TxCommit(st, drv) ==
    IF st # "Active" THEN [err |-> ErrTxDone, st |-> st]
    ELSE [err |-> drv, st |-> IF drv = Nil THEN "Committed" ELSE "CommitFailed"]

\* one call made on the handle and the error it returned
TxCalled(fn, e) == [fn |-> fn, err |-> e]

EndTxResult(r, st, calls, msgs) ==
    [ret |-> r, st |-> st, calls |-> calls, logs |-> msgs]

\* lines 210-214
EndTxNil ==
    EndTxResult(ErrInvalidTransaction, "nil", <<>>,
                <<LogEntry(ErrInvalidTransaction, "[database:EndTx]", Nil)>>)

\* mutant: a failed rollback replaces the error that triggered it
EndTxRollback_masked(st, err, drv) ==
    LET r == TxRollback(st, drv)
    IN IF r.err # Nil
          THEN EndTxResult(r.err, r.st, <<TxCalled("Rollback", r.err)>>,
                           <<LogEntry(r.err, "[database:EndTx]rollback failed", r.err)>>)
          ELSE EndTxResult(err, r.st, <<TxCalled("Rollback", r.err)>>,
                           <<LogEntry(err, "[database:EndTx]rollback", Nil)>>)

\* lines 217-225; fmt.Sprintf("%s failed: (%s)", msg, errR.Error())
EndTxRollback(st, err, drv) ==
    LET r == TxRollback(st, drv)
        entry == IF r.err # Nil
                    THEN LogEntry(err, "[database:EndTx]rollback failed", r.err)
                    ELSE LogEntry(err, "[database:EndTx]rollback", Nil)
    IN EndTxResult(err, r.st, <<TxCalled("Rollback", r.err)>>, <<entry>>)

\* mutant: the commit error is logged and dropped
EndTxCommit_swallowed(st, drv) ==
    LET c == TxCommit(st, drv)
    IN EndTxResult(Nil, c.st, <<TxCalled("Commit", c.err)>>,
                   IF c.err # Nil THEN <<LogEntry(c.err, "[database:EndTx]Commit", Nil)>>
                   ELSE <<>>)

\* lines 228-234
EndTxCommit(st, drv) ==
    LET c == TxCommit(st, drv)
    IN IF c.err # Nil
          THEN EndTxResult(c.err, c.st, <<TxCalled("Commit", c.err)>>,
                           <<LogEntry(c.err, "[database:EndTx]Commit", Nil)>>)
          ELSE EndTxResult(Nil, c.st, <<TxCalled("Commit", c.err)>>, <<>>)

\* mutant: the error is examined before the handle
EndTxFn_errFirst(st, err, drvRollback, drvCommit) ==
    IF err # Nil THEN EndTxRollback(st, err, drvRollback)
    ELSE IF st = "nil" THEN EndTxNil
    ELSE EndTxCommit(st, drvCommit)

\* mutant: the rollback branch does not return and goes on to commit
EndTxFn_fallThrough(st, err, drvRollback, drvCommit) ==
    IF st = "nil" THEN EndTxNil
    ELSE IF err # Nil
       THEN LET r == EndTxRollback(st, err, drvRollback)
                c == EndTxCommit(r.st, drvCommit)
            IN EndTxResult(c.ret, c.st, r.calls \o c.calls, r.logs \o c.logs)
    ELSE EndTxCommit(st, drvCommit)

\* lines 209-235
EndTxFn(st, err, drvRollback, drvCommit) ==
    IF st = "nil" THEN EndTxNil
    ELSE IF err # Nil THEN EndTxRollback(st, err, drvRollback)
    ELSE EndTxCommit(st, drvCommit)

\* ---------------------------------------------------------------------
\* the unit of work of the comment at lines 204-208: begin a transaction,
\* run statements and Scan their outcomes into err, finalize with
\* EndTx(tx, err)
\* ---------------------------------------------------------------------
NoExCall == [op |-> "none", err |-> Nil, res |-> NilResult, ra |-> NilPtr,
             li |-> NilPtr, out |-> ExecStart(NilPtr, NilPtr)]
NoTxCall == [op |-> "none", tx |-> "nil", err |-> Nil,
             out |-> EndTxResult(Nil, "nil", <<>>, <<>>)]

\* what *rowsAffected and *lastInsertID hold before the call, and the
\* identifiers a result reports
OldValues == {0 - 1, 7}
InsertIDs == {5}

Results ==
    {NilResult} \cup
    { Result(n, nErr, id, idErr) :
        n \in 0..MaxAffected, nErr \in {Nil, ErrRowsAffected},
        id \in InsertIDs, idErr \in {Nil, ErrLastInsertId} }

\* db.BeginTx (line 205): a fresh Active handle, or no handle and an error
BeginTx ==
    /\ txState \in {"nil"} \cup (TxStates \ {"Active"})
    /\ \/ txState' = "Active" /\ uowErr' = Nil
       \/ txState' = "nil" /\ uowErr' = ErrDriver
    /\ UNCHANGED <<exCall, txCall, queryVars>>

\* SQL{}.Exec(res, e).Scan(&rowsAffected, &lastInsertID) (lines 196, 89)
ExecScan ==
    /\ \E err \in {Nil, ErrWrapped}, res \in Results,
          ra \in {NilPtr} \cup {Ptr(v) : v \in OldValues},
          li \in {NilPtr} \cup {Ptr(v) : v \in OldValues} :
          exCall' = [op |-> "exec", err |-> err, res |-> res, ra |-> ra,
                     li |-> li, out |-> ExecScanFn(err, res, ra, li)]
    /\ UNCHANGED <<txState, uowErr, txCall, queryVars>>

\* a statement of the unit of work run against the handle, its outcome
\* scanned into err: err = SQL{}.Exec(txc.ExecContext(...)).Scan(&n, nil)
TxStatement ==
    /\ txState = "Active" /\ uowErr = Nil
    /\ \E err \in {Nil, ErrWrapped}, res \in Results :
          uowErr' = ExecScanFn(err, res, Ptr(0), NilPtr).ret
    /\ UNCHANGED <<txState, exCall, txCall, queryVars>>

\* err = SQL{}.EndTx(tx, err) (line 206)
EndTx ==
    /\ \E drvRollback \in {Nil, ErrRollback}, drvCommit \in {Nil, ErrCommit} :
          LET out == EndTxFn(txState, uowErr, drvRollback, drvCommit)
          IN /\ txCall' = [op |-> "endtx", tx |-> txState, err |-> uowErr, out |-> out]
             /\ txState' = out.st
             /\ uowErr' = out.ret
    /\ UNCHANGED <<exCall, queryVars>>

\* ======================================================================
\* the cursor: the parts of sql.Rows that query.Scan calls
\* ======================================================================
\* sql.Rows.lasterrOrErrLocked
LasterrOrErr(e) == IF lasterr \notin {Nil, EOF} THEN lasterr ELSE e

\* sql.Rows.Err (called at lines 142, 163, 164, 166)
RowsErr == IF ctxErr # Nil THEN ctxErr ELSE LasterrOrErr(Nil)

\* sql.Rows.Columns (called at line 148)
RowsColumns ==
    IF closed THEN [n |-> 0, err |-> LasterrOrErr(ErrRowsClosed)]
    ELSE [n |-> ncols, err |-> Nil]

\* sql.Rows.Next (called at line 162): what one call can do.  A closed
\* cursor does not advance; an open one yields the next row, or ends at EOF,
\* or fails in the driver; once the context is done it may refuse to advance.
RowsNextOutcomes ==
    IF closed THEN {"closed"}
    ELSE {"err"} \cup (IF pos < nrows THEN {"row"} ELSE {"eof"})
                 \cup (IF ctxErr # Nil THEN {"ctxdone"} ELSE {})

\* sql.Rows.Scan (called at line 184) with n destinations: the errors one
\* call can return (Nil: the row's values were assigned)
RowsScanOutcomes(n) ==
    IF lasterr \notin {Nil, EOF} THEN {lasterr}
    ELSE IF closed THEN {ErrRowsClosed}
    ELSE IF pos = 0 THEN {ErrNoNext}
    ELSE IF n # ncols THEN {ErrDestCount}
    ELSE {Nil, ErrConvert}

\* the context of the query is cancelled: the watcher of the cursor stores
\* the error, and closes the cursor in a later step
CtxCancel ==
    /\ xRows = "rows" /\ ~closed /\ ctxErr = Nil
    /\ ctxErr' = ErrCtx
    /\ closePending' = TRUE
    /\ UNCHANGED <<uowVars, wrapVars, frameVars, ncols, nrows, pos, closed, lasterr>>

\* sql.Rows.close(ctx.Err()) by the watcher
LibClose ==
    /\ closePending
    /\ closePending' = FALSE
    /\ closed' = TRUE
    /\ lasterr' = IF ~closed /\ lasterr = Nil THEN ctxErr ELSE lasterr
    /\ UNCHANGED <<uowVars, wrapVars, frameVars, ncols, nrows, pos, ctxErr>>

\* ======================================================================
\* the callback: utils.Array results (lines 40-45)
\* ======================================================================
StopSentinel == 0 - 1                 \* a nil Array
CbResults == {StopSentinel} \cup (0..MaxDest)   \* nil, or an Array of that length
\* mutant: a nil Array is not told apart from an empty one
IsNilArray_never(r) == FALSE

\* line 169: row(idx) == nil
IsNilArray(r) == r = StopSentinel
ArrayLen(r) == IF r = StopSentinel THEN 0 ELSE r     \* len() of a nil Array is 0

\* row(i): the results one invocation can return
RowCb(i) == IF cbKind = "pure" THEN {cbTable[i]} ELSE CbResults

\* ======================================================================
\* query.Scan (lines 129-194)
\* ======================================================================
\* mutant: the deferred Close is missing
ScanReturn_noClose(e, p, entries, deferred) ==
    /\ pc' = "done"
    /\ ret' = e
    /\ path' = p
    /\ logs' = logs \o entries

\* a return statement: the return value is set; when the defer of line 146
\* is registered, the deferred Close is still to run (ScanDeferredClose)
ScanReturn(e, p, entries, deferred) ==
    /\ pc' = IF deferred THEN "closing" ELSE "done"
    /\ ret' = e
    /\ path' = p
    /\ logs' = logs \o entries

\* line 146: the deferred x.sqlRows.Close() runs, then Scan has returned.
\* sql.Rows.Close is close(nil): it leaves lasterr alone
ScanDeferredClose ==
    /\ pc = "closing"
    /\ pc' = "done"
    /\ closed' = TRUE
    /\ closeCalls' = closeCalls + 1
    /\ UNCHANGED <<uowVars, wrapVars, scans, idx, columns, ret, advanced, cbCalls,
                   cbIdx, rowRes, bound, colsSeen, logs, path, ncols, nrows, pos,
                   lasterr, ctxErr, closePending>>

\* the call of row(idx) made by one statement
CallRow(r) ==
    /\ r \in RowCb(idx)
    /\ cbCalls' = cbCalls + 1
    /\ cbIdx' = Append(cbIdx, idx)
    /\ rowRes' = Append(rowRes, r)

\* lines 129-144: entry, wrapped error, nil cursor, cursor already in error
ScanEntry ==
    /\ pc \in {"idle", "done"} /\ scans < MaxScans
    /\ scans' = scans + 1
    /\ idx' = 0 /\ columns' = 0 /\ advanced' = 0 /\ cbCalls' = 0
    /\ cbIdx' = <<>> /\ rowRes' = <<>> /\ bound' = <<>> /\ colsSeen' = 0 - 1
    /\ IF xErr # Nil
          THEN /\ pc' = "done" /\ ret' = PlainErr(xErr) /\ path' = "wrapped"
               /\ logs' = <<LogEntry(xErr, "[database:query]error not nil", Nil)>>
       ELSE IF xRows = "nil"
          THEN /\ pc' = "done" /\ ret' = PlainErr(ErrDataNotFound) /\ path' = "nilrows"
               /\ logs' = <<LogEntry("sql: no rows in result set",
                                     "[database:query]rows is nil", Nil)>>
       ELSE IF RowsErr # Nil
          THEN /\ pc' = "done" /\ ret' = PlainErr(RowsErr) /\ path' = "preerr"
               /\ logs' = <<>>
       ELSE /\ pc' = "columns" /\ ret' = NoErr /\ path' = "running"
            /\ logs' = <<>>
    /\ closeCalls' = 0
    /\ UNCHANGED <<uowVars, wrapVars, cursorVars>>

\* mutant: only a negative count is refused
NoColumns_negative(n) == n < 0

\* line 155
NoColumns(n) == n < 1

\* lines 146-159: register the deferred Close, resolve and count the columns
ScanColumns ==
    /\ pc = "columns"
    /\ LET c == RowsColumns
       IN IF c.err # Nil
             THEN /\ ScanReturn(PlainErr(c.err), "columns",
                                <<LogEntry(c.err, "[database:query]columns", Nil)>>, TRUE)
                  /\ UNCHANGED <<columns, colsSeen>>
          ELSE IF NoColumns(c.n)
             THEN /\ ScanReturn(PlainErr(ErrNoColumnReturned), "nocolumns",
                                <<LogEntry(ErrNoColumnReturned,
                                   "[database:query]count columns length", Nil)>>, TRUE)
                  /\ columns' = c.n /\ colsSeen' = c.n
          ELSE /\ pc' = "next" /\ columns' = c.n /\ colsSeen' = c.n
               /\ UNCHANGED <<ret, path, logs>>
    /\ UNCHANGED <<uowVars, wrapVars, scans, idx, advanced, cbCalls, cbIdx, rowRes,
                   bound, ncols, nrows, pos, closed, closeCalls, lasterr, ctxErr,
                   closePending>>

\* the value of the local err at line 193: nil, since every non-nil
\* assignment to it (lines 148, 184) returns at once
LoopExitErr == NoErr

\* line 162 (and line 193 when Next reports false)
ScanNext ==
    /\ pc = "next"
    /\ \E o \in RowsNextOutcomes :
          /\ rowRes' = <<>>
          /\ IF o = "row"
                THEN /\ pos' = pos + 1 /\ advanced' = advanced + 1
                     /\ pc' = "rowerr"
                     /\ UNCHANGED <<lasterr, closed, ret, path, logs>>
                ELSE \* Next() closes the cursor itself at EOF and on a driver error
                     /\ lasterr' = CASE o = "eof" -> EOF
                                     [] o = "err" -> ErrDriver
                                     [] OTHER -> lasterr
                     /\ closed' = IF o \in {"eof", "err"} THEN TRUE ELSE closed
                     /\ ScanReturn(LoopExitErr, IF o = "eof" THEN "exhausted" ELSE "nextfailed",
                                   <<>>, TRUE)
                     /\ UNCHANGED <<pos, advanced>>
    /\ UNCHANGED <<uowVars, wrapVars, scans, idx, columns, cbCalls, cbIdx, bound,
                   colsSeen, closeCalls, ncols, nrows, ctxErr, closePending>>

\* lines 163-167
ScanRowErr ==
    /\ pc = "rowerr"
    /\ IF RowsErr # Nil
          THEN ScanReturn(PlainErr(RowsErr), "rowerr",
                          <<LogEntry(RowsErr, "[database:query]error to scan sql rows", Nil)>>,
                          TRUE)
          ELSE /\ pc' = "stop"
               /\ UNCHANGED <<ret, path, logs>>
    /\ UNCHANGED <<uowVars, wrapVars, scans, idx, columns, advanced, cbCalls, cbIdx,
                   rowRes, bound, colsSeen, closeCalls, ncols, nrows, pos, closed,
                   lasterr, ctxErr, closePending>>

\* lines 169-171
ScanStop ==
    /\ pc = "stop"
    /\ \E r \in RowCb(idx) :
          /\ CallRow(r)
          /\ IF IsNilArray(r)
                THEN ScanReturn(LoopExitErr, "stop", <<>>, TRUE)
                ELSE /\ pc' = "skip"
                     /\ UNCHANGED <<ret, path, logs>>
    /\ UNCHANGED <<uowVars, wrapVars, closed, closeCalls, scans, idx, columns, advanced, bound, colsSeen,
                   ncols, nrows, pos, lasterr, ctxErr, closePending>>

\* mutant: only a negative length is skipped
SkipRow_negative(r) == ArrayLen(r) < 0

\* line 173: len(row(idx)) < 1
SkipRow(r) == ArrayLen(r) < 1

\* mutant: a skipped row is offered to the callback again without advancing
SkipTarget_retry == "stop"

\* line 174: continue, back to the loop condition x.sqlRows.Next() of line 162
SkipTarget == "next"

\* lines 173-175
ScanSkip ==
    /\ pc = "skip"
    /\ \E r \in RowCb(idx) :
          /\ CallRow(r)
          /\ pc' = IF SkipRow(r) THEN SkipTarget ELSE "compare"
    /\ UNCHANGED <<uowVars, wrapVars, cursorVars, scans, idx, columns, ret, advanced,
                   bound, colsSeen, closeCalls, logs, path>>

\* mutant: only a sequence longer than the columns is refused
LengthMismatch_longer(n, ncolumns) == n > ncolumns

\* line 177
LengthMismatch(n, ncolumns) == n # ncolumns

\* lines 177-182
ScanCompare ==
    /\ pc = "compare"
    /\ \E r \in RowCb(idx) :
          IF LengthMismatch(ArrayLen(r), columns)
             THEN \E r2 \in RowCb(idx) :
                     LET e == InvalidArgumentsErr(columns, ArrayLen(r2))
                     IN /\ cbCalls' = cbCalls + 2
                        /\ cbIdx' = cbIdx \o <<idx, idx>>
                        /\ rowRes' = rowRes \o <<r, r2>>
                        /\ ScanReturn(e, "mismatch",
                              <<LogEntry(ErrInvalidArguments,
                                  "[database:query]error invalid args to scan", Nil)>>, TRUE)
             ELSE /\ CallRow(r)
                  /\ pc' = "bind"
                  /\ UNCHANGED <<ret, path, logs>>
    /\ UNCHANGED <<uowVars, wrapVars, closed, closeCalls, scans, idx, columns, advanced, bound, colsSeen,
                   ncols, nrows, pos, lasterr, ctxErr, closePending>>

\* mutant: the index is not incremented after a bind
IdxAfterBind_same(i) == i

\* line 190: idx++
IdxAfterBind(i) == i + 1

\* lines 184-190
ScanBind ==
    /\ pc = "bind"
    /\ \E r \in RowCb(idx) :
          /\ CallRow(r)
          /\ \E e \in RowsScanOutcomes(ArrayLen(r)) :
                IF e # Nil
                   THEN /\ ScanReturn(PlainErr(e), "bindfailed",
                              <<LogEntry(e, "[database:query] failed to scan row", Nil)>>,
                              TRUE)
                        /\ UNCHANGED <<idx, bound>>
                   ELSE /\ bound' = Append(bound, <<idx, pos>>)
                        /\ idx' = IdxAfterBind(idx)
                        /\ pc' = "next"
                        /\ UNCHANGED <<ret, path, logs>>
    /\ UNCHANGED <<uowVars, wrapVars, closed, closeCalls, scans, columns, advanced, colsSeen,
                   ncols, nrows, pos, lasterr, ctxErr, closePending>>

\* ======================================================================
\* specifications
\* ======================================================================
IdleQuery ==
    /\ xRows = "nil" /\ xErr = Nil /\ ncols = 0 /\ nrows = 0 /\ pos = 0
    /\ closed = FALSE /\ lasterr = Nil /\ ctxErr = Nil /\ closePending = FALSE
    /\ cbKind = "stateful" /\ cbTable = [i \in 0..(MaxRows - 1) |-> StopSentinel]
    /\ pc = "idle" /\ scans = 0 /\ idx = 0 /\ columns = 0 /\ ret = NoErr
    /\ advanced = 0 /\ cbCalls = 0 /\ cbIdx = <<>> /\ rowRes = <<>> /\ bound = <<>>
    /\ colsSeen = 0 - 1 /\ closeCalls = 0 /\ logs = <<>> /\ path = "none"

IdleUow ==
    /\ txState = "nil" /\ uowErr = Nil /\ exCall = NoExCall /\ txCall = NoTxCall

\* exec.Scan called on execution outcomes
InitExec == IdleUow /\ IdleQuery
NextExec == ExecScan
SpecExec == InitExec /\ [][NextExec]_vars

\* the unit of work: begin, statements, finalize
InitTx == IdleUow /\ IdleQuery
NextTx == BeginTx \/ TxStatement \/ EndTx
SpecTx == InitTx /\ [][NextTx]_vars

\* SQL{}.Query(sqlRows, err) (line 198) around a fresh cursor, and a callback
Init ==
    /\ IdleUow
    /\ xErr \in {Nil, ErrWrapped}
    /\ \/ xRows = "nil" /\ ncols = 0 /\ nrows = 0
       \/ xRows = "rows" /\ ncols \in 0..MaxCols /\ nrows \in 0..MaxRows
    /\ pos = 0 /\ closed = FALSE /\ lasterr = Nil /\ ctxErr = Nil
    /\ closePending = FALSE
    /\ \/ cbKind = "pure" /\ cbTable \in [0..(MaxRows - 1) -> CbResults]
       \/ cbKind = "stateful" /\ cbTable = [i \in 0..(MaxRows - 1) |-> StopSentinel]
    /\ pc = "idle" /\ scans = 0 /\ idx = 0 /\ columns = 0 /\ ret = NoErr
    /\ advanced = 0 /\ cbCalls = 0 /\ cbIdx = <<>> /\ rowRes = <<>> /\ bound = <<>>
    /\ colsSeen = 0 - 1 /\ closeCalls = 0 /\ logs = <<>> /\ path = "none"

Next ==
    \/ ScanEntry \/ ScanColumns \/ ScanNext \/ ScanRowErr \/ ScanStop
    \/ ScanSkip \/ ScanCompare \/ ScanBind \/ ScanDeferredClose
    \/ CtxCancel \/ LibClose

Spec == Init /\ [][Next]_vars

\* a Scan call that has started keeps running: the call is synchronous, each
\* of its statements is executed once control reaches it
ScanStep ==
    \/ ScanColumns \/ ScanNext \/ ScanRowErr \/ ScanStop
    \/ ScanSkip \/ ScanCompare \/ ScanBind \/ ScanDeferredClose

FairSpec == Init /\ [][Next]_vars /\ WF_vars(ScanStep)

\* ======================================================================
\* properties
\* ======================================================================
EndTxCalled == txCall.op = "endtx"
ExecCalled == exCall.op = "exec"
ScanDone == pc = "done"
\* the return value is set: the deferred Close is pending or has run
ScanReturning == pc \in {"closing", "done"}

\* C1: EndTx(tx, err) with a non-nil tx and a non-nil err calls Rollback on
\* tx exactly once, never Commit, and returns err itself, whether Rollback
\* succeeded or failed.
C1_RollbackKeepsOriginalError ==
    (EndTxCalled /\ txCall.tx # "nil" /\ txCall.err # Nil) =>
        /\ Len(txCall.out.calls) = 1
        /\ txCall.out.calls[1].fn = "Rollback"
        /\ txCall.out.ret = txCall.err

\* C1 witness: an Active handle, a non-nil err, and a Rollback that failed
C1_Witness ==
    /\ EndTxCalled /\ txCall.tx = "Active" /\ txCall.err # Nil
    /\ txCall.out.calls = <<TxCalled("Rollback", ErrRollback)>>
    /\ txCall.out.ret = txCall.err /\ txCall.out.ret # ErrRollback

\* C2: EndTx(tx, nil) with a non-nil tx calls Commit exactly once, never
\* Rollback, and returns what Commit returned: the commit error when it
\* fails, nil if and only if it succeeds.
C2_CommitResultReturned ==
    (EndTxCalled /\ txCall.tx # "nil" /\ txCall.err = Nil) =>
        /\ Len(txCall.out.calls) = 1
        /\ txCall.out.calls[1].fn = "Commit"
        /\ txCall.out.ret = txCall.out.calls[1].err
        /\ (txCall.out.ret = Nil <=> txCall.out.calls[1].err = Nil)
        /\ (txCall.out.ret = Nil => txCall.out.st = "Committed")

\* C2 witness: an Active handle, a nil err, and a Commit that failed
C2_Witness ==
    /\ EndTxCalled /\ txCall.tx = "Active" /\ txCall.err = Nil
    /\ txCall.out.calls = <<TxCalled("Commit", ErrCommit)>>
    /\ txCall.out.ret = ErrCommit

\* C3: EndTx with a nil tx returns InvalidTransaction and calls neither
\* Commit nor Rollback, whether err is nil or not.
C3_NilTxInvalidTransaction ==
    (EndTxCalled /\ txCall.tx = "nil") =>
        /\ txCall.out.ret = ErrInvalidTransaction
        /\ txCall.out.calls = <<>>

\* C3 witness: a nil handle finalized with a non-nil err
C3_Witness ==
    /\ EndTxCalled /\ txCall.tx = "nil" /\ txCall.err \notin {Nil, ErrInvalidTransaction}
    /\ txCall.out.ret = ErrInvalidTransaction

\* C4: after query.Scan returns on a wrapper holding a non-nil cursor, the
\* cursor is closed, on every return path.
C4_CursorClosedOnReturn ==
    (ScanDone /\ xRows = "rows") => closed

\* C5: when the loop of query.Scan ends because Next reported false, Scan
\* returns the cursor's terminal error: nil only on clean exhaustion, the
\* cursor's error when advancing failed.
C5_TerminalErrorReturned ==
    (ScanDone /\ path \in {"exhausted", "nextfailed"}) => ret = PlainErr(RowsErr)

\* the callback answered the current row with one and the same non-empty
\* sequence whose length differs from the column count
RowMismatched ==
    /\ rowRes # <<>>
    /\ \A i \in 1..Len(rowRes) : rowRes[i] = rowRes[1]
    /\ rowRes[1] >= 1
    /\ rowRes[1] # columns

\* C6: at a row where the callback returns a non-empty sequence whose length
\* differs from the column count, Scan returns an InvalidArguments error
\* carrying the column count and the destination length, binds nothing for
\* that row, and never goes on to advance the cursor.
C6_MismatchIsFatal ==
    RowMismatched =>
        /\ pc \in {"skip", "compare", "closing", "done"}
        /\ ScanReturning => /\ ret = InvalidArgumentsErr(columns, rowRes[1])
                            /\ \A k \in 1..Len(bound) : bound[k][2] # pos

\* C6 witness: a row was bound, and the next row met a mismatched sequence
C6_Witness ==
    /\ ScanDone /\ RowMismatched /\ Len(bound) = 1 /\ pos = 2
    /\ ret = InvalidArgumentsErr(columns, rowRes[1])

\* C7: with a nil error, a non-nil result, a non-nil rowsAffectedOut and an
\* affected-row count below 1, exec.Scan returns DataNotFound, leaves
\* rowsAffectedOut as it was, and does not read the last-insert id.
C7_ZeroAffectedIsNotFound ==
    (ExecCalled /\ exCall.err = Nil /\ ~exCall.res.isNil /\ ~exCall.ra.isNil
       /\ exCall.res.nErr = Nil /\ exCall.res.n < 1) =>
        /\ exCall.out.ret = ErrDataNotFound
        /\ exCall.out.ra = exCall.ra
        /\ exCall.out.reads = <<"RowsAffected">>

\* C7 witness: zero rows affected, both outputs requested
C7_Witness ==
    /\ ExecCalled /\ exCall.err = Nil /\ ~exCall.res.isNil
    /\ exCall.res.nErr = Nil /\ exCall.res.n = 0
    /\ exCall.ra = Ptr(7) /\ ~exCall.li.isNil
    /\ exCall.out.ret = ErrDataNotFound /\ exCall.out.ra = Ptr(7)

\* C8: with a non-nil wrapped error, exec.Scan returns that error, never
\* calls RowsAffected or LastInsertId (also on a non-nil result), and
\* writes neither output.
C8_WrappedErrorPropagates ==
    (ExecCalled /\ exCall.err # Nil) =>
        /\ exCall.out.ret = exCall.err
        /\ exCall.out.reads = <<>>
        /\ exCall.out.ra = exCall.ra
        /\ exCall.out.li = exCall.li

\* C8 witness: a wrapped error next to a usable result, both outputs requested
C8_Witness ==
    /\ ExecCalled /\ exCall.err = ErrWrapped /\ ~exCall.res.isNil
    /\ exCall.res.nErr = Nil /\ exCall.res.n >= 1 /\ exCall.res.idErr = Nil
    /\ ~exCall.ra.isNil /\ ~exCall.li.isNil
    /\ exCall.out.ret = ErrWrapped

\* C9: with a positive affected-row count, both outputs requested and a
\* failing last-insert-id lookup, exec.Scan returns nil, rowsAffectedOut
\* holds the count and lastInsertIDOut is as it was.
C9_LastInsertIdBestEffort ==
    (ExecCalled /\ exCall.err = Nil /\ ~exCall.res.isNil
       /\ ~exCall.ra.isNil /\ ~exCall.li.isNil
       /\ exCall.res.nErr = Nil /\ exCall.res.n >= 1 /\ exCall.res.idErr # Nil) =>
        /\ exCall.out.ret = Nil
        /\ exCall.out.ra = Ptr(exCall.res.n)
        /\ exCall.out.li = exCall.li

\* C9 witness: the count was written, the lookup failed after it
C9_Witness ==
    /\ ExecCalled /\ exCall.err = Nil /\ ~exCall.res.isNil
    /\ exCall.res.n = MaxAffected /\ exCall.res.nErr = Nil
    /\ exCall.res.idErr = ErrLastInsertId
    /\ exCall.ra = Ptr(7) /\ exCall.li = Ptr(7)
    /\ exCall.out.reads = <<"RowsAffected", "LastInsertId">>
    /\ exCall.out.ret = Nil /\ exCall.out.ra = Ptr(MaxAffected)

\* C10: when Columns() reports zero columns (nil wrapped error, non-nil
\* cursor without error), Scan returns NoColumnReturned, and has neither
\* advanced the cursor nor invoked the callback.
C10_ZeroColumnsBeforeRows ==
    /\ colsSeen = 0 =>
          /\ ScanReturning
          /\ ret = PlainErr(ErrNoColumnReturned)
          /\ advanced = 0 /\ pos = 0
          /\ cbCalls = 0
    \* in terms of the inputs: the first Scan of a fresh cursor without
    \* columns, its context not cancelled
    /\ (ScanDone /\ scans = 1 /\ xErr = Nil /\ xRows = "rows" /\ ncols = 0
          /\ ctxErr = Nil) =>
          /\ colsSeen = 0
          /\ ret = PlainErr(ErrNoColumnReturned)

\* C10 witness: a cursor with rows and no columns was scanned
C10_Witness ==
    /\ ScanDone /\ colsSeen = 0 /\ xErr = Nil /\ xRows = "rows" /\ nrows > 0
    /\ ret = PlainErr(ErrNoColumnReturned)

\* C11: when the callback returns the stop sentinel (nil) at a row, Scan
\* returns nil, the rows bound before keep their values (each index bound
\* once, in order, to an earlier row), the current row is not bound, and the
\* cursor is not advanced again.
C11_StopSentinelEndsCleanly ==
    (rowRes # <<>> /\ rowRes[1] = StopSentinel) =>
        /\ ScanReturning
        /\ ret = NoErr
        /\ rowRes = <<StopSentinel>>
        /\ Len(bound) = idx
        /\ \A k \in 1..Len(bound) : bound[k][1] = k - 1 /\ bound[k][2] < pos
        /\ advanced = pos

\* C11 witness: one row bound, the stop sentinel at the next row
C11_Witness ==
    /\ ScanDone /\ rowRes = <<StopSentinel>> /\ ret = NoErr
    /\ bound = <<<<0, 1>>>> /\ pos = 2 /\ nrows >= 2

\* C12: a second Scan on the same wrapper (nil wrapped error, non-nil
\* cursor), after the first call has returned, advances and binds no row
\* and returns a non-nil error.
C12_SecondScanRefused ==
    (scans >= 2 /\ xErr = Nil /\ xRows = "rows") =>
        /\ pc \in {"columns", "closing", "done"}
        /\ advanced = 0 /\ bound = <<>> /\ cbCalls = 0
        /\ ScanReturning => ret # NoErr

\* C12 witness: the first call stopped early and closed the cursor with rows
\* left; the second call reports the closed cursor
C12_Witness ==
    /\ scans = 2 /\ ScanDone /\ xErr = Nil /\ xRows = "rows"
    /\ closed /\ pos < nrows /\ lasterr = Nil /\ ctxErr = Nil
    /\ ret = PlainErr(ErrRowsClosed)

\* the terminal states of the transaction state machine, by the call that
\* finalized the handle: a Rollback (whatever the driver answered) leaves it
\* Rolled Back, a Commit leaves it Committed or Commit Failed
TerminalOf(st) ==
    CASE st \in {"RolledBack", "RollbackFailed"} -> "Rolled Back"
      [] st = "Committed" -> "Committed"
      [] st = "CommitFailed" -> "Commit Failed"
      [] OTHER -> "none"

\* C13: one EndTx call on an Active handle takes exactly one terminal
\* transition, into Rolled Back, Committed or Commit Failed: it makes one
\* call on the handle, never both Commit and Rollback, and the handle is no
\* longer Active when it returns.
C13_OneTerminalTransition ==
    (EndTxCalled /\ txCall.tx = "Active") =>
        /\ Len(txCall.out.calls) = 1
        /\ txCall.out.st # "Active"
        /\ TerminalOf(txCall.out.st) =
              (IF txCall.out.calls[1].fn = "Rollback" THEN "Rolled Back"
               ELSE IF txCall.out.calls[1].err = Nil THEN "Committed"
               ELSE "Commit Failed")
        /\ (txCall.err # Nil <=> txCall.out.calls[1].fn = "Rollback")

\* C13 witness: an Active handle finalized with a failing Commit
C13_Witness ==
    /\ EndTxCalled /\ txCall.tx = "Active" /\ txCall.err = Nil
    /\ txCall.out.st = "CommitFailed" /\ txState = "CommitFailed"
    /\ Len(txCall.out.calls) = 1

\* C14: on every path where exec.Scan, query.Scan or EndTx returns a
\* non-nil error, exactly one log entry was emitted during the call.
C14_OneLogPerError ==
    /\ (ExecCalled /\ exCall.out.ret # Nil) => Len(exCall.out.logs) = 1
    /\ (EndTxCalled /\ txCall.out.ret # Nil) => Len(txCall.out.logs) = 1
    /\ (ScanDone /\ ret # NoErr) => Len(logs) = 1

\* C15: the index passed to the callback is the number of rows bound so
\* far: it starts at 0, goes up by exactly 1 after each bind and is left
\* alone by a skip, so the indices the callback sees never decrease and
\* never jump by more than 1.
C15_IndexCountsBoundRows ==
    /\ idx = Len(bound)
    /\ \A k \in 1..Len(bound) : bound[k][1] = k - 1
    /\ cbIdx # <<>> =>
          /\ cbIdx[1] = 0
          /\ cbIdx[Len(cbIdx)] \in {idx, idx - 1}
    /\ \A j \in 1..(Len(cbIdx) - 1) : cbIdx[j + 1] - cbIdx[j] \in {0, 1}
    /\ (pc \in {"stop", "skip", "compare", "bind"}) => (advanced >= idx + 1)
    /\ (pc \in {"skip", "compare", "bind"}) => cbIdx[Len(cbIdx)] = Len(bound)

\* C15 witness: a row skipped at index 0, then a row bound at index 0
C15_Witness ==
    /\ ScanDone /\ path = "exhausted" /\ bound = <<<<0, 2>>>> /\ idx = 1
    /\ advanced = 2 /\ cbIdx[Len(cbIdx)] = 0

\* C16: for each row the cursor advances to, Scan invokes the callback once
\* and decides stop, skip, mismatch or bind from that one result, so what is
\* bound is what was compared with the column count, also for a callback
\* whose result changes between calls.
C16_OneCallbackCallPerRow ==
    /\ cbCalls <= advanced
    /\ Len(rowRes) <= 1
    /\ \A i, j \in 1..Len(rowRes) : rowRes[i] = rowRes[j]

\* C17: for a callback that depends on its index only and returns the skip
\* sentinel (empty, non-nil) at index k: every row met at index k is
\* answered with index k and skipped, no row is bound at or beyond k, the
\* rows bound below k are intact, and Scan returns nil when the cursor is
\* exhausted.
C17_SkipIndexSticks ==
    cbKind = "pure" =>
        \A k \in DOMAIN cbTable :
            cbTable[k] = 0 =>
                /\ idx <= k /\ Len(bound) <= k
                /\ \A j \in 1..Len(cbIdx) : cbIdx[j] <= k
                /\ \A j \in 1..Len(bound) : bound[j] = <<j - 1, j>>
                /\ (idx = k /\ rowRes # <<>> /\ cbIdx[Len(cbIdx)] = k) =>
                      /\ pc \in {"skip", "next"}
                      /\ \A i \in 1..Len(rowRes) : rowRes[i] = 0
                /\ (idx = k /\ pc = "next" /\ advanced > k) =>
                      /\ rowRes # <<>>
                      /\ cbIdx[Len(cbIdx)] = k
                /\ (idx = k /\ ScanDone /\ path = "exhausted") =>
                      /\ ret = NoErr
                      /\ scans = 1 => pos = nrows

\* C17 witness: a row bound at index 0, the skip sentinel at index 1, the
\* remaining row skipped and the cursor exhausted
C17_Witness ==
    /\ cbKind = "pure" /\ cbTable[1] = 0 /\ cbTable[0] >= 1
    /\ ScanDone /\ path = "exhausted" /\ ret = NoErr
    /\ bound = <<<<0, 1>>>> /\ idx = 1 /\ pos = 2 /\ advanced = 2
    /\ cbIdx[Len(cbIdx)] = 1

\* C18: query.Scan terminates for every cursor with finitely many rows and
\* every callback, also one that skips on every call: the loop body is
\* entered only by advancing the cursor by exactly one row, each iteration
\* starts on a row not yet offered to the callback, and the rows bound never
\* outnumber the rows advanced.
C18_ScanTerminates ==
    /\ [](Len(bound) <= advanced)
    /\ []((pc \in {"rowerr", "stop"}) => rowRes = <<>>)
    /\ [][pos' = pos \/ (pc = "next" /\ pos' = pos + 1 /\ advanced' = advanced + 1)]_vars
    /\ [][(pc = "next" /\ pc' \notin {"next", "closing", "done"}) => pos' = pos + 1]_vars
    /\ ((pc \notin {"idle", "done"}) ~> (pc = "done"))

\* C18 witness: every row of a full cursor was skipped and Scan returned
C18_Witness ==
    /\ ScanDone /\ path = "exhausted" /\ nrows = MaxRows /\ advanced = nrows
    /\ bound = <<>> /\ cbCalls = 2 * nrows
    /\ \A j \in 1..Len(cbIdx) : cbIdx[j] = 0

\* C19: whenever exec.Scan returns a non-nil error, rowsAffectedOut and
\* lastInsertIDOut hold what they held before the call; an output is
\* written only by a call that returns nil.
C19_NoWriteOnError ==
    (ExecCalled /\ exCall.out.ret # Nil) =>
        /\ exCall.out.ra = exCall.ra
        /\ exCall.out.li = exCall.li

\* C19 witness: the affected-row read failed with both outputs requested
C19_Witness ==
    /\ ExecCalled /\ exCall.err = Nil /\ ~exCall.res.isNil
    /\ exCall.res.nErr = ErrRowsAffected /\ exCall.res.idErr = Nil
    /\ exCall.ra = Ptr(7) /\ exCall.li = Ptr(7)
    /\ exCall.out.ret = ErrRowsAffected
    /\ exCall.out.ra = Ptr(7) /\ exCall.out.li = Ptr(7)

====
